---- MODULE Spec2Model ----
(***************************************************************************)
(* A model of the conversation session coordinator of hume-voice-demo:     *)
(* cli/conversation_manager.py (ConversationManager), cli/evi_client.py    *)
(* (EVIClient._handle_message), cli/database.py (Database) and the         *)
(* commands of cli/cli.py.                                                 *)
(*                                                                         *)
(* One ConversationManager runs sessions one after the other.  A session   *)
(* is the call start_conversation; pc is the place the call has reached.   *)
(* The event handler of the channel runs on the same event loop; hpc is    *)
(* the place _handle_message has reached for the event in hand.            *)
(***************************************************************************)
EXTENDS Naturals, Sequences, FiniteSets

\* The bound of the model: the number of things the environment does in a
\* run.  A call of start_conversation, an event of the channel, a signal, a
\* failure of a Store call or of a print, a tick of the clock and a call of
\* get_messages count one each.
MaxWork == 4

VARIABLES
  conversations,            \* table conversations: row id -> [status, created_at, updated_at, bumps]
  messages,                 \* table messages: row id -> [conversation_id, role, content, timestamp, ev]
  now,                      \* the value CURRENT_TIMESTAMP had when a statement last read it
                            \* (whole seconds of a clock that is not set back)
  current_conversation_id,  \* ConversationManager.current_conversation_id, 0 for None
  running,                  \* ConversationManager.running
  handlers,                 \* _handle_exit is installed for SIGINT and SIGTERM
  message_callbacks,        \* number of entries of EVIClient.message_callbacks
  queue,                    \* AudioHandler.stream.queue, the playback queue (frame = its event)
  channelOpen,              \* the connection context of get_connection() is entered
  pc,                       \* place in start_conversation
  pendingExc,               \* the exception propagating out of the connection block
  hpc,                      \* place in _handle_message
  hcb,                      \* index of the next callback of the loop over message_callbacks
  work,                     \* what the environment has done so far, counted as MaxWork says
  events,                   \* the events of this session: [id, kind, text, st, saves, fails]
  notified,                 \* what the callbacks printed in this session: [ev, role, content]
  played,                   \* frames the playback side took from the queue in this session
  drained,                  \* frames a user_interruption removed from the queue in this session
  session,                  \* what is known of the call in progress or last returned
  got,                      \* result of the last get_messages: [conv, rows]
  txn,                      \* the add_message call made on the Store directly: its
                            \* arguments, how far its transaction has come, its error
  listed,                   \* result of the last list_conversations: [limit, rows]
  peer                      \* the session of a ConversationManager of another process
                            \* on the same Store: [pc, conversation_id]

vars == <<conversations, messages, now, current_conversation_id, running, handlers,
          message_callbacks, queue, channelOpen, pc, pendingExc, hpc, hcb, events,
          notified, played, drained, session, got, work, txn, listed, peer>>

None == 0

Texts == {"hello", "bye"}

----------------------------------------------------------------------------
\* Database (cli/database.py)

\* get_conversation: the row or None, as a sequence of at most one row.
get_conversation(id) ==
  IF id \in DOMAIN conversations THEN <<conversations[id]>> ELSE <<>>

\* create_conversation: INSERT ... VALUES (?, 'active', CURRENT_TIMESTAMP, CURRENT_TIMESTAMP)
create_conversation(convs, t) ==
  Append(convs, [status |-> "active", created_at |-> t, updated_at |-> t, bumps |-> 0])

\* The UPDATE without its WHERE clause: every row is written.
update_every_status(convs, id, status, t) ==
  [c \in DOMAIN convs |-> [convs[c] EXCEPT !.status = status, !.updated_at = t]]

\* update_conversation_status: UPDATE ... SET status = ?, updated_at = CURRENT_TIMESTAMP WHERE id = ?
update_conversation_status(convs, id, status, t) ==
  [c \in DOMAIN convs |->
     IF c = id THEN [convs[c] EXCEPT !.status = status, !.updated_at = t]
     ELSE convs[c]]

\* The INSERT of add_message.  ev names the event the row comes from; it is
\* not a column, it only lets the properties tell the rows of two events apart.
InsertMessage(msgs, conversation_id, role, content, t, ev) ==
  Append(msgs, [conversation_id |-> conversation_id, role |-> role,
                content |-> content, timestamp |-> t, ev |-> ev])

\* The UPDATE of add_message is missing: no row changes.
TouchNothing(convs, id, t) == convs

\* The UPDATE of add_message: SET updated_at = CURRENT_TIMESTAMP WHERE id = ?
\* bumps counts these UPDATEs of the row; it is not a column, it only lets
\* the properties tell whether the UPDATE of an add_message was applied.
TouchConversation(convs, id, t) ==
  [c \in DOMAIN convs |->
     IF c = id THEN [convs[c] EXCEPT !.updated_at = t, !.bumps = @ + 1] ELSE convs[c]]

\* PRAGMA foreign_keys is left off: any conversation_id is accepted.
NoForeignKey(convs, conversation_id) == TRUE

\* PRAGMA foreign_keys = ON with FOREIGN KEY (conversation_id) REFERENCES
\* conversations (id): the INSERT of a message is accepted for these ids only.
ForeignKeyOk(convs, conversation_id) == conversation_id \in DOMAIN convs

\* The connection in autocommit mode: each statement is committed at once.
CommitsEach(stmt) == TRUE

\* add_message runs its INSERT and its UPDATE in the transaction the INSERT
\* opens; conn.commit() comes after the UPDATE, and a connection closed
\* before it (an exception, the end of the process) rolls both back.
CommitsAt(stmt) == stmt = "update"

\* The rows of one conversation, as row ids.
RowsOf(conversation_id) ==
  {m \in DOMAIN messages : messages[m].conversation_id = conversation_id}

\* ORDER BY timestamp DESC in place of ASC.
get_messages_desc(conversation_id) ==
  LET rows == RowsOf(conversation_id)
      n == Cardinality(rows)
  IN CHOOSE s \in [1..n -> rows] :
       \A i, j \in 1..n :
         i < j => \/ messages[s[i]].timestamp > messages[s[j]].timestamp
                  \/ /\ messages[s[i]].timestamp = messages[s[j]].timestamp
                     /\ s[i] > s[j]

\* get_messages: SELECT ... WHERE conversation_id = ? ORDER BY timestamp ASC,
\* as row ids.  The table is scanned in the order of the row ids and the
\* sorter of SQLite keeps rows of equal timestamp in the order of the scan.
get_messages(conversation_id) ==
  LET rows == RowsOf(conversation_id)
      n == Cardinality(rows)
  IN CHOOSE s \in [1..n -> rows] :
       \A i, j \in 1..n :
         i < j => \/ messages[s[i]].timestamp < messages[s[j]].timestamp
                  \/ /\ messages[s[i]].timestamp = messages[s[j]].timestamp
                     /\ s[i] < s[j]

----------------------------------------------------------------------------
\* Exceptions the session can meet.  type is the path of the exception class
\* as str(type(e)) prints it, msg the phrases of str(e).

ConnectionClosedNoFrame ==
  [type |-> <<"websockets", "exceptions", "ConnectionClosedError">>,
   msg |-> <<"no close frame", "received or sent">>]
ConnectionClosedWithFrame ==
  [type |-> <<"websockets", "exceptions", "ConnectionClosedError">>,
   msg |-> <<"received 1011 (internal error)", "then sent 1011">>]
WrappedNoFrame ==
  [type |-> <<"Exception">>,
   msg |-> <<"WebSocket error:", "no close frame", "received or sent">>]
OtherError ==
  [type |-> <<"OSError">>, msg |-> <<"audio device unavailable">>]
DatabaseError ==
  [type |-> <<"sqlite3", "OperationalError">>, msg |-> <<"database is locked">>]

Failures == {ConnectionClosedNoFrame, ConnectionClosedWithFrame, WrappedNoFrame, OtherError}

KeyboardInterrupt == [type |-> <<"KeyboardInterrupt">>, msg |-> <<>>]

NoExc == [type |-> <<>>, msg |-> <<>>]

Contains(s, x) == \E i \in DOMAIN s : s[i] = x

\* The closure happened without a close handshake frame: what the message of
\* the transport says.
NoHandshake(e) == Contains(e.msg, "no close frame")

\* The test of the message alone.
IsTimeoutByMessage(e) == Contains(e.msg, "no close frame")

\* "ConnectionClosedError" in str(type(e)) or "no close frame" in error_msg
IsTimeout(e) ==
  Contains(e.type, "ConnectionClosedError") \/ Contains(e.msg, "no close frame")

----------------------------------------------------------------------------
NoSession ==
  [arg |-> None, obtained |-> None, fresh |-> TRUE, cmd |-> "none", cmdarg |-> None,
   active |-> FALSE, report |-> "none",
   exc |-> NoExc, shown |-> <<>>, log |-> <<>>, cancelled |-> FALSE, preempted |-> FALSE,
   convs |-> <<>>, msgs |-> <<>>]

NoGot == [conv |-> None, rows |-> <<>>]

NoTxn == [st |-> "none", conversation_id |-> None, role |-> "", content |-> "",
          timestamp |-> 0, err |-> ""]

NoListed == [limit |-> 0, rows |-> <<>>]

NoPeer == [pc |-> "idle", conversation_id |-> None]

Init ==
  /\ conversations = <<>>
  /\ messages = <<>>
  /\ now = 0
  /\ current_conversation_id = None
  /\ running = FALSE
  /\ handlers = FALSE
  /\ message_callbacks = 0
  /\ queue = <<>>
  /\ channelOpen = FALSE
  /\ pc = "idle"
  /\ pendingExc = NoExc
  /\ hpc = "idle"
  /\ hcb = 0
  /\ events = <<>>
  /\ notified = <<>>
  /\ played = <<>>
  /\ drained = {}
  /\ session = NoSession
  /\ got = NoGot
  /\ work = 0
  /\ txn = NoTxn
  /\ listed = NoListed
  /\ peer = NoPeer

----------------------------------------------------------------------------
\* Events of the channel (hume SubscribeEvent): the kind and what it carries.

MessageKinds == {"user_message", "assistant_message"}
OtherKinds == {"chat_metadata"}

EventInputs ==
  {[kind |-> "audio_output", text |-> d] : d \in {"base64", "not base64"}}
    \cup {[kind |-> "user_interruption", text |-> ""]}
    \cup {[kind |-> k, text |-> t] : k \in MessageKinds, t \in Texts}
    \cup {[kind |-> k, text |-> ""] : k \in OtherKinds}

\* A fixed text in place of the type of the event.
BracketFixed(kind) == "[unhandled]"

\* f"[{message.type}]"
Bracket(kind) == IF kind = "chat_metadata" THEN "[chat_metadata]" ELSE "[?]"

\* The role _handle_message passes to the callbacks for an event.
RoleOf(e) ==
  CASE e.kind = "user_message" -> "user"
    [] e.kind = "assistant_message" -> "assistant"
    [] OTHER -> "system"

\* The content _handle_message passes to the callbacks for an event.
ContentOf(e) ==
  CASE e.kind \in MessageKinds -> e.text
    [] e.kind = "user_interruption" -> "[Interrupted]"
    [] OTHER -> Bracket(e.kind)

\* A single get_nowait in place of the loop.
DrainOne(q) == IF q = <<>> THEN q ELSE Tail(q)

\* while not queue.empty(): queue.get_nowait()
Drain(q) == <<>>

\* The test of the role lost.
SaveAnyRole(role) == current_conversation_id # None

\* if role != "system" and self.current_conversation_id
ShouldSave(role) == role # "system" /\ current_conversation_id # None

\* The client of the session before is kept, on_message appends one more.
KeepCallbacks(old) == old + 1

\* EVIClient(...) makes message_callbacks = [], on_message appends one.
RegisterCallback(old) == 1

\* No except clause around add_message: its exception leaves the callback.
SaveErrorLeaves(role) == FALSE

\* except Exception in _save_message_callback, lines 48-49: the failure of
\* add_message is logged and the callback goes on to its prints.
SaveErrorAbsorbed(role) == TRUE

\* No except clause: the exception leaves the handler and ends the session.
LeaveHandler(p) == "exit"

\* except Exception in _handle_message: the error is logged and the handler
\* returns; the place of start_conversation is the one it had.
AfterHandlerError(p) == p

\* The exception of b64decode or of a print, were it to leave the handler.
HandlerException == [type |-> <<"Exception">>, msg |-> <<"error handling message">>]

\* No try around the status write: its exception leaves _cleanup and
\* start_conversation.
StatusErrorLeaves(p) == "idle"

\* except Exception in _cleanup, lines 138-139: the failure of the status
\* write is logged and _cleanup goes on to the place that comes next.
StatusErrorCaught(p) == p

\* The status _cleanup writes is 'completed'.
CleanupCompleted == "completed"

\* update_conversation_status(self.current_conversation_id, "paused")
CleanupStatus == "paused"

\* The steps of _cleanup, in the order of the code.
CleanupStep(p) == IF p = "cleanup1" THEN "status" ELSE "stop"

Range(s) == {s[i] : i \in DOMAIN s}

Cur == events[Len(events)]

Log(x) == [session EXCEPT !.log = Append(@, x)]

----------------------------------------------------------------------------
\* cli.py: each command constructs its ConversationManager in a new process.
NewManager ==
  /\ pc = "idle"
  /\ work < MaxWork
  /\ current_conversation_id # None \/ handlers \/ queue # <<>>
  /\ current_conversation_id' = None
  /\ running' = FALSE
  /\ handlers' = FALSE
  /\ message_callbacks' = 0
  /\ queue' = <<>>
  /\ got' = NoGot
  /\ UNCHANGED <<conversations, messages, now, channelOpen, pc, pendingExc, hpc, hcb,
                 events, notified, played, drained, session, work>>
  /\ UNCHANGED <<txn, listed, peer>>

\* start_conversation, lines 60-87: the client, then the conversation.  ok
\* says whether the Store call of the branch taken succeeds, dt how far the
\* clock has moved on when it reads CURRENT_TIMESTAMP.  new says that the
\* call is the first of a ConversationManager just constructed, cmd and
\* cmdarg which command of cli.py made the call, if one did.
Start(conversation_id, ok, dt, new, cmd, cmdarg) ==
  /\ pc = "idle"
  /\ got' = NoGot
  /\ events' = <<>>
  /\ notified' = <<>>
  /\ played' = <<>>
  /\ drained' = {}
  /\ LET cur == IF new THEN None ELSE current_conversation_id
         s == [NoSession EXCEPT !.arg = conversation_id,
                                !.fresh = (cur = None),
                                !.cmd = cmd, !.cmdarg = cmdarg,
                                !.convs = conversations, !.msgs = messages]
         cost == 1 + (IF ok THEN 0 ELSE 1) + dt
     IN
     /\ work + cost <= MaxWork
     /\ work' = work + cost
     /\ now' = now + dt
     /\ IF conversation_id # None /\ get_conversation(conversation_id) = <<>>
        THEN \* not found: return, through finally
             /\ ok
             /\ dt = 0
             /\ session' = [s EXCEPT !.report = "notfound"]
             /\ pc' = "cleanup1"
             /\ pendingExc' = NoExc
             /\ message_callbacks' = 0
             /\ current_conversation_id' = cur
             /\ UNCHANGED conversations
        ELSE IF conversation_id # None
        THEN /\ current_conversation_id' = conversation_id
             /\ session' = [s EXCEPT !.obtained = conversation_id]
             /\ IF ok
                THEN /\ conversations' = update_conversation_status(
                                           conversations, conversation_id, "active", now')
                     /\ message_callbacks' = RegisterCallback(message_callbacks)
                     /\ pendingExc' = NoExc
                     /\ pc' = "connecting"
                ELSE \* the UPDATE raises
                     /\ dt = 0
                     /\ pc' = "except"
                     /\ pendingExc' = DatabaseError
                     /\ message_callbacks' = 0
                     /\ UNCHANGED conversations
        ELSE IF ok
             THEN /\ conversations' = create_conversation(conversations, now')
                  /\ current_conversation_id' = Len(conversations) + 1
                  /\ session' = [s EXCEPT !.obtained = Len(conversations) + 1]
                  /\ message_callbacks' = RegisterCallback(message_callbacks)
                  /\ pendingExc' = NoExc
                  /\ pc' = "connecting"
             ELSE \* the INSERT raises
                  /\ dt = 0
                  /\ pc' = "except"
                  /\ pendingExc' = DatabaseError
                  /\ session' = s
                  /\ message_callbacks' = 0
                  /\ current_conversation_id' = cur
             /\ UNCHANGED conversations
  /\ running' = IF new THEN FALSE ELSE running
  /\ handlers' = IF new THEN FALSE ELSE handlers
  /\ queue' = IF new THEN <<>> ELSE queue
  /\ UNCHANGED <<messages, channelOpen, hpc, hcb>>
  /\ UNCHANGED <<txn, listed, peer>>

\* start_conversation called on the coordinator as it is.
StartConversation(conversation_id, ok, dt) ==
  Start(conversation_id, ok, dt, FALSE, "call", None)

\* get_last_active_conversation: SELECT ... WHERE status = 'active' ORDER BY
\* updated_at ASC LIMIT 1.
get_first_active_conversation(convs) ==
  {c \in DOMAIN convs :
     /\ convs[c].status = "active"
     /\ \A d \in DOMAIN convs :
          convs[d].status = "active" => convs[d].updated_at >= convs[c].updated_at}

\* get_last_active_conversation: SELECT ... WHERE status = 'active' ORDER BY
\* updated_at DESC LIMIT 1, as the ids the query may return (SQL leaves the
\* order of rows of equal updated_at open; no id: None).
get_last_active_conversation(convs) ==
  {c \in DOMAIN convs :
     /\ convs[c].status = "active"
     /\ \A d \in DOMAIN convs :
          convs[d].status = "active" => convs[d].updated_at <= convs[c].updated_at}

\* cli.py resume [conversation_id]: a new ConversationManager; without an id
\* (click passes None, and 0 counts as none) the last active conversation is
\* resumed, or a new one started when there is none.
Resume(arg, pick, ok, dt) ==
  /\ IF arg = None
     THEN IF get_last_active_conversation(conversations) = {}
          THEN pick = None
          ELSE pick \in get_last_active_conversation(conversations)
     ELSE pick = arg
  /\ Start(pick, ok, dt, TRUE, "resume", arg)

\* async with self.evi_client.get_connection(): the connection opens, then
\* lines 95-96 (running, the signal handlers).
ConnectOk ==
  /\ pc = "connecting"
  /\ pc' = "active"
  /\ channelOpen' = TRUE
  /\ running' = TRUE
  /\ handlers' = TRUE
  /\ session' = [session EXCEPT !.active = TRUE]
  /\ UNCHANGED <<conversations, messages, now, current_conversation_id, message_callbacks,
                 queue, pendingExc, hpc, hcb, events, notified, played, drained, got, work>>
  /\ UNCHANGED <<txn, listed, peer>>

\* The connection does not open: the exception reaches line 120.
ConnectFail(e) ==
  /\ pc = "connecting"
  /\ pc' = "except"
  /\ pendingExc' = e
  /\ UNCHANGED <<conversations, messages, now, current_conversation_id, running, handlers,
                 message_callbacks, queue, channelOpen, hpc, hcb, events, notified, played,
                 drained, session, got, work>>
  /\ UNCHANGED <<txn, listed, peer>>

\* What an error caught by except Exception of _handle_message leaves behind.
HandlerError(evs) ==
  /\ events' = [evs EXCEPT ![Len(evs)].st = "raised"]
  /\ hpc' = "idle"
  /\ hcb' = 0
  /\ pc' = AfterHandlerError(pc)
  /\ pendingExc' = IF AfterHandlerError(pc) = pc THEN pendingExc ELSE HandlerException

\* _handle_message for one event, up to the loop over the callbacks: an
\* audio_output is decoded and queued, a user_interruption drains the queue.
Deliver(e) ==
  /\ pc = "active"
  /\ channelOpen
  /\ hpc = "idle"
  /\ work < MaxWork
  /\ work' = work + 1
  /\ LET ev(st) == [id |-> work + 1, kind |-> e.kind, text |-> e.text, st |-> st,
                    saves |-> 0, fails |-> 0]
         loop == IF message_callbacks = 0 THEN "done" ELSE "inflight"
     IN
     CASE e.kind = "audio_output" /\ e.text = "base64" ->
            /\ queue' = Append(queue, work + 1)
            /\ events' = Append(events, ev("done"))
            /\ UNCHANGED <<hpc, hcb, drained, pc, pendingExc>>
       [] e.kind = "audio_output" /\ e.text # "base64" ->
            \* b64decode raises
            /\ HandlerError(Append(events, ev("inflight")))
            /\ UNCHANGED <<queue, drained>>
       [] e.kind = "user_interruption" ->
            /\ queue' = Drain(queue)
            /\ drained' = drained \cup (Range(queue) \ Range(Drain(queue)))
            /\ events' = Append(events, ev(loop))
            /\ hpc' = IF loop = "done" THEN "idle" ELSE "callbacks"
            /\ hcb' = IF loop = "done" THEN 0 ELSE 1
            /\ UNCHANGED <<pc, pendingExc>>
       [] OTHER ->
            /\ events' = Append(events, ev(loop))
            /\ hpc' = IF loop = "done" THEN "idle" ELSE "callbacks"
            /\ hcb' = IF loop = "done" THEN 0 ELSE 1
            /\ UNCHANGED <<queue, drained, pc, pendingExc>>
  /\ UNCHANGED <<conversations, messages, now, current_conversation_id, running, handlers,
                 message_callbacks, channelOpen, notified, played, session, got>>
  /\ UNCHANGED <<txn, listed, peer>>

\* One turn of the loop over message_callbacks: _save_message_callback(role,
\* content).  add_message inserts the row and bumps the conversation in one
\* transaction, or raises and leaves the tables as they were (the callback
\* logs that); then the callback prints.  An exception of the printing leaves
\* the handler through its except Exception.  After the last callback the
\* handler returns.
Callback(saved, printed, dt) ==
  /\ hpc = "callbacks"
  /\ LET role == RoleOf(Cur)
         content == ContentOf(Cur)
         save == ShouldSave(role)
         fk == ForeignKeyOk(conversations, current_conversation_id)
         cost == (IF save /\ fk /\ ~saved THEN 1 ELSE 0) + (IF printed THEN 0 ELSE 1) + dt
         evs == [events EXCEPT ![Len(events)].saves = IF save /\ saved THEN @ + 1 ELSE @,
                               ![Len(events)].fails = IF save /\ ~saved THEN @ + 1 ELSE @]
     IN
     /\ save \/ saved
     /\ (save /\ ~fk) => ~saved
     /\ (save /\ saved) \/ dt = 0
     /\ work + cost <= MaxWork
     /\ work' = work + cost
     /\ now' = now + dt
     /\ IF save /\ saved
        THEN /\ messages' = InsertMessage(messages, current_conversation_id, role, content,
                                          now', Cur.id)
             /\ conversations' = TouchConversation(conversations, current_conversation_id,
                                                   now')
        ELSE UNCHANGED <<messages, conversations>>
     /\ (save /\ ~saved /\ ~SaveErrorAbsorbed(role)) => printed
     /\ IF printed /\ ((save /\ ~saved) => SaveErrorAbsorbed(role))
        THEN /\ notified' = Append(notified, [ev |-> Cur.id, role |-> role,
                                              content |-> content])
             /\ events' = IF hcb >= message_callbacks
                          THEN [evs EXCEPT ![Len(evs)].st = "done"] ELSE evs
             /\ hpc' = IF hcb >= message_callbacks THEN "idle" ELSE "callbacks"
             /\ hcb' = IF hcb >= message_callbacks THEN 0 ELSE hcb + 1
             /\ UNCHANGED <<pc, pendingExc>>
        ELSE /\ HandlerError(evs)
             /\ UNCHANGED notified
  /\ UNCHANGED <<current_conversation_id, running, handlers, message_callbacks, queue,
                 channelOpen, played, drained, session, got>>
  /\ UNCHANGED <<txn, listed, peer>>

\* The playback side takes the next frame of the queue.
Play ==
  /\ pc = "active"
  /\ hpc = "idle"
  /\ queue # <<>>
  /\ played' = Append(played, Head(queue))
  /\ queue' = Tail(queue)
  /\ UNCHANGED <<conversations, messages, now, current_conversation_id, running, handlers,
                 message_callbacks, channelOpen, pc, pendingExc, hpc, hcb, events, notified,
                 drained, session, got, work>>
  /\ UNCHANGED <<txn, listed, peer>>

\* MicrophoneInterface.start returns: the block of the connection ends.
AudioReturn ==
  /\ pc = "active"
  /\ hpc = "idle"
  /\ pc' = "exit"
  /\ UNCHANGED <<conversations, messages, now, current_conversation_id, running, handlers,
                 message_callbacks, queue, channelOpen, pendingExc, hpc, hcb, events,
                 notified, played, drained, session, got, work>>
  /\ UNCHANGED <<txn, listed, peer>>

\* start_microphone raises (the channel closed, the transport or the audio
\* device failed): line 113 does not catch it, the block is left with it.
AudioRaise(e) ==
  /\ pc = "active"
  /\ hpc = "idle"
  /\ pc' = "exit"
  /\ pendingExc' = e
  /\ UNCHANGED <<conversations, messages, now, current_conversation_id, running, handlers,
                 message_callbacks, queue, channelOpen, hpc, hcb, events, notified, played,
                 drained, session, got, work>>
  /\ UNCHANGED <<txn, listed, peer>>

\* SIGINT or SIGTERM with _handle_exit installed: running = False, and
\* KeyboardInterrupt is raised at the place the program has reached.
\*   active:   an event in hand is abandoned where it is (except Exception
\*             does not catch KeyboardInterrupt); line 113 catches, the block ends
\*   exit:     raised in lines 113-116 or in the exit of the block: it
\*             leaves the block and reaches line 118
\*   connecting, except: reaches line 118, or leaves the except clause; finally runs
\*   cleanup1, cleanup2: leaves _cleanup (its clauses catch Exception only)
\*             and start_conversation: the steps left are not run
Signal ==
  /\ handlers
  /\ pc \in {"connecting", "active", "exit", "except", "cleanup1", "cleanup2"}
  /\ work < MaxWork
  /\ work' = work + 1
  /\ running' = FALSE
  /\ CASE pc = "active" ->
            /\ pc' = "exit"
            /\ hpc' = "idle"
            /\ hcb' = 0
            /\ events' = IF hpc # "idle"
                         THEN [events EXCEPT ![Len(events)].st = "aborted"] ELSE events
            /\ session' = [session EXCEPT !.cancelled = TRUE]
            /\ UNCHANGED pendingExc
       [] pc = "exit" ->
            /\ pendingExc' = KeyboardInterrupt
            /\ UNCHANGED <<pc, hpc, hcb, events, session>>
       [] pc = "connecting" ->
            /\ pc' = "except"
            /\ pendingExc' = KeyboardInterrupt
            /\ UNCHANGED <<hpc, hcb, events, session>>
       [] pc = "except" ->
            /\ pc' = "cleanup1"
            /\ pendingExc' = KeyboardInterrupt
            /\ UNCHANGED <<hpc, hcb, events, session>>
       [] OTHER ->
            /\ pc' = "idle"
            /\ pendingExc' = KeyboardInterrupt
            /\ session' = [session EXCEPT !.preempted = TRUE]
            /\ UNCHANGED <<hpc, hcb, events>>
  /\ UNCHANGED <<conversations, messages, now, current_conversation_id, handlers,
                 message_callbacks, queue, channelOpen, notified, played, drained, got>>
  /\ UNCHANGED <<txn, listed, peer>>

\* The exit of the connection block closes the channel, whatever ended the
\* block.  e is the exception the close raises (NoExc: none); it takes the
\* place of the one that ended the block and reaches the except clauses.
ChannelClose(e) ==
  /\ pc = "exit"
  /\ channelOpen' = FALSE
  /\ IF e = NoExc
     THEN /\ session' = Log("close")
          /\ pc' = IF pendingExc = NoExc THEN "cleanup1" ELSE "except"
          /\ UNCHANGED <<pendingExc, work>>
     ELSE /\ work < MaxWork
          /\ work' = work + 1
          /\ session' = Log("close failed")
          /\ pendingExc' = e
          /\ pc' = "except"
  /\ UNCHANGED <<conversations, messages, now, current_conversation_id, running, handlers,
                 message_callbacks, queue, hpc, hcb, events, notified, played,
                 drained, got>>
  /\ UNCHANGED <<txn, listed, peer>>

\* The except clauses of start_conversation, lines 118-129.
Report(e) ==
  IF e = KeyboardInterrupt THEN "interrupted"
  ELSE IF IsTimeout(e) THEN "timeout"
  ELSE "error"

Except ==
  /\ pc = "except"
  /\ session' = [session EXCEPT !.report = Report(pendingExc), !.exc = pendingExc,
                                !.shown = IF Report(pendingExc) = "error"
                                          THEN pendingExc.msg ELSE <<>>]
  /\ pendingExc' = NoExc
  /\ pc' = "cleanup1"
  /\ UNCHANGED <<conversations, messages, now, current_conversation_id, running, handlers,
                 message_callbacks, queue, channelOpen, hpc, hcb, events, notified, played,
                 drained, got, work>>
  /\ UNCHANGED <<txn, listed, peer>>

\* _cleanup: the status write, then stop_microphone, each in its own
\* try/except Exception that logs.  ok says whether the step succeeds, dt how
\* far the clock has moved on when the status write reads CURRENT_TIMESTAMP.
Cleanup(ok, dt) ==
  /\ pc \in {"cleanup1", "cleanup2"}
  /\ now' = now + dt
  /\ LET next == IF pc = "cleanup1" THEN "cleanup2" ELSE "idle"
     IN
     IF CleanupStep(pc) = "status" /\ current_conversation_id # None
     THEN /\ ok \/ dt = 0
          /\ work + dt + (IF ok THEN 0 ELSE 1) <= MaxWork
          /\ work' = work + dt + (IF ok THEN 0 ELSE 1)
          /\ conversations' =
               IF ok THEN update_conversation_status(conversations, current_conversation_id,
                                                     CleanupStatus, now')
               ELSE conversations
          /\ session' = Log(IF ok THEN "status" ELSE "status failed")
          /\ pc' = IF ok THEN next ELSE StatusErrorCaught(next)
     ELSE /\ dt = 0
          /\ ok \/ CleanupStep(pc) = "stop"
          /\ work + (IF ok THEN 0 ELSE 1) <= MaxWork
          /\ work' = work + (IF ok THEN 0 ELSE 1)
          /\ session' = IF CleanupStep(pc) = "stop"
                        THEN Log(IF ok THEN "stop" ELSE "stop failed") ELSE session
          /\ pc' = next
          /\ UNCHANGED conversations
  /\ UNCHANGED <<messages, current_conversation_id, running, handlers, message_callbacks,
                 queue, channelOpen, pendingExc, hpc, hcb, events, notified, played,
                 drained, got>>
  /\ UNCHANGED <<txn, listed, peer>>

\* get_messages(conversation_id), as the view command calls it.
GetMessages(conversation_id) ==
  /\ pc = "idle"
  /\ work < MaxWork
  /\ work' = work + 1
  /\ got' = [conv |-> conversation_id, rows |-> get_messages(conversation_id)]
  /\ UNCHANGED <<conversations, messages, now, current_conversation_id, running, handlers,
                 message_callbacks, queue, channelOpen, pc, pendingExc, hpc, hcb, events,
                 notified, played, drained, session>>
  /\ UNCHANGED <<txn, listed, peer>>

Next ==
  \/ NewManager
  \/ \E id \in 0..(Len(conversations) + 1), ok \in BOOLEAN, dt \in 0..1 :
       StartConversation(id, ok, dt)
  \/ ConnectOk
  \/ \E e \in Failures : ConnectFail(e)
  \/ \E e \in EventInputs : Deliver(e)
  \/ \E saved, printed \in BOOLEAN, dt \in 0..1 : Callback(saved, printed, dt)
  \/ Play
  \/ AudioReturn
  \/ \E e \in Failures : AudioRaise(e)
  \/ Signal
  \/ \E e \in Failures \cup {NoExc} : ChannelClose(e)
  \/ Except
  \/ \E ok \in BOOLEAN, dt \in 0..1 : Cleanup(ok, dt)
  \/ \E c \in DOMAIN conversations : GetMessages(c)

Spec == Init /\ [][Next]_vars

\* The event loop runs start_conversation on: the exit of the connection
\* block, the except clauses and _cleanup are steps of the coroutine itself
\* and wait for nothing but the loop, so each is taken once it is due.
FairSpec ==
  /\ Spec
  /\ WF_vars(\E e \in Failures \cup {NoExc} : ChannelClose(e))
  /\ WF_vars(Except)
  /\ WF_vars(\E ok \in BOOLEAN, dt \in 0..1 : Cleanup(ok, dt))

----------------------------------------------------------------------------
\* The resume command on a Store that earlier runs have left: at most
\* MaxStored conversations, active or paused, last written at time 0 or 1.

MaxStored == 2

StoredConversations ==
  {[status |-> st, created_at |-> 0, updated_at |-> t, bumps |-> 0] :
     st \in {"active", "paused"}, t \in 0..1}

Stores == UNION {[1..n -> StoredConversations] : n \in 0..MaxStored}

ResumeInit ==
  /\ conversations \in Stores
  /\ now = 1
  /\ messages = <<>>
  /\ current_conversation_id = None
  /\ running = FALSE
  /\ handlers = FALSE
  /\ message_callbacks = 0
  /\ queue = <<>>
  /\ channelOpen = FALSE
  /\ pc = "idle"
  /\ pendingExc = NoExc
  /\ hpc = "idle"
  /\ hcb = 0
  /\ events = <<>>
  /\ notified = <<>>
  /\ played = <<>>
  /\ drained = {}
  /\ session = NoSession
  /\ got = NoGot
  /\ work = 0
  /\ txn = NoTxn
  /\ listed = NoListed
  /\ peer = NoPeer

ResumeNext ==
  \/ \E arg, pick \in 0..(Len(conversations) + 1), ok \in BOOLEAN, dt \in 0..1 :
       Resume(arg, pick, ok, dt)
  \/ ConnectOk
  \/ \E e \in Failures : ConnectFail(e)
  \/ AudioReturn
  \/ \E e \in Failures : AudioRaise(e)
  \/ Signal
  \/ \E e \in Failures \cup {NoExc} : ChannelClose(e)
  \/ Except
  \/ \E ok \in BOOLEAN, dt \in 0..1 : Cleanup(ok, dt)

ResumeSpec == ResumeInit /\ [][ResumeNext]_vars

----------------------------------------------------------------------------
\* The Store by itself: the methods of Database called with any arguments, by
\* any process.  A write call waits while the transaction of an add_message
\* is open (the database is locked); the reads see what is committed.

Statuses == {"active", "paused", "completed"}

Roles == {"user", "assistant"}

CreateConversation(dt) ==
  /\ txn.st # "inserted"
  /\ work + 1 + dt <= MaxWork
  /\ work' = work + 1 + dt
  /\ now' = now + dt
  /\ conversations' = create_conversation(conversations, now')
  /\ UNCHANGED <<messages, current_conversation_id, running, handlers, message_callbacks,
                 queue, channelOpen, pc, pendingExc, hpc, hcb, events, notified, played,
                 drained, session, got, txn, listed>>
  /\ UNCHANGED peer

UpdateConversationStatus(conversation_id, status, dt) ==
  /\ txn.st # "inserted"
  /\ work + 1 + dt <= MaxWork
  /\ work' = work + 1 + dt
  /\ now' = now + dt
  /\ conversations' = update_conversation_status(conversations, conversation_id, status, now')
  /\ UNCHANGED <<messages, current_conversation_id, running, handlers, message_callbacks,
                 queue, channelOpen, pc, pendingExc, hpc, hcb, events, notified, played,
                 drained, session, got, txn, listed>>
  /\ UNCHANGED peer

\* add_message up to its first statement: the INSERT, which the foreign key
\* may refuse (sqlite3.IntegrityError, rolled back by _get_connection).
AddMessageInsert(conversation_id, role, content, dt) ==
  /\ txn.st # "inserted"
  /\ work + 1 + dt <= MaxWork
  /\ work' = work + 1 + dt
  /\ now' = now + dt
  /\ LET call == [st |-> "inserted", conversation_id |-> conversation_id, role |-> role,
                  content |-> content, timestamp |-> now', err |-> ""]
     IN IF ForeignKeyOk(conversations, conversation_id)
        THEN /\ txn' = call
             /\ messages' = IF CommitsAt("insert")
                             THEN InsertMessage(messages, conversation_id, role, content,
                                                now', 0)
                             ELSE messages
        ELSE /\ dt = 0
             /\ txn' = [call EXCEPT !.st = "failed", !.err = "IntegrityError"]
             /\ UNCHANGED messages
  /\ UNCHANGED <<conversations, current_conversation_id, running, handlers,
                 message_callbacks, queue, channelOpen, pc, pendingExc, hpc, hcb, events,
                 notified, played, drained, session, got, listed>>
  /\ UNCHANGED peer

\* add_message from its second statement on: the UPDATE and the commit, or
\* an sqlite3.Error of the UPDATE (rollback, raise).
AddMessageUpdate(ok, dt) ==
  /\ txn.st = "inserted"
  /\ ok \/ dt = 0
  /\ work + dt + (IF ok THEN 0 ELSE 1) <= MaxWork
  /\ work' = work + dt + (IF ok THEN 0 ELSE 1)
  /\ now' = now + dt
  /\ IF ok
     THEN /\ messages' = IF CommitsAt("insert") THEN messages
                          ELSE InsertMessage(messages, txn.conversation_id, txn.role,
                                             txn.content, txn.timestamp, 0)
          /\ conversations' = TouchConversation(conversations, txn.conversation_id, now')
          /\ txn' = [txn EXCEPT !.st = "committed"]
     ELSE /\ txn' = [txn EXCEPT !.st = "failed", !.err = "OperationalError"]
          /\ UNCHANGED <<messages, conversations>>
  /\ UNCHANGED <<current_conversation_id, running, handlers, message_callbacks, queue,
                 channelOpen, pc, pendingExc, hpc, hcb, events, notified, played, drained,
                 session, got, listed>>
  /\ UNCHANGED peer

\* The process ends between the two statements of add_message: nothing was
\* committed, the journal of SQLite undoes the INSERT.
Crash ==
  /\ txn.st = "inserted"
  /\ work < MaxWork
  /\ work' = work + 1
  /\ txn' = [txn EXCEPT !.st = "crashed"]
  /\ UNCHANGED <<conversations, messages, now, current_conversation_id, running, handlers,
                 message_callbacks, queue, channelOpen, pc, pendingExc, hpc, hcb, events,
                 notified, played, drained, session, got, listed>>
  /\ UNCHANGED peer

\* LEFT JOIN messages m ON c.id = m.conversation_id: the m.id of the joined
\* rows of conversation c; a conversation without messages has one joined
\* row, and its m.id is NULL (None).
JoinedIds(c) == IF RowsOf(c) = {} THEN {None} ELSE RowsOf(c)

\* COUNT(*) in place of COUNT(m.id).
CountStar(ids) == Cardinality(ids)

\* COUNT(m.id): the joined rows whose m.id is not NULL.
CountIds(ids) == Cardinality(ids \ {None})

\* ORDER BY c.updated_at DESC over the groups of GROUP BY c.id: the orders
\* the query may return the conversations in (SQL leaves the order of rows
\* of equal updated_at open).
ListOrders ==
  LET n == Len(conversations)
  IN {s \in [1..n -> 1..n] :
        /\ \A i, j \in 1..n : i # j => s[i] # s[j]
        /\ \A i, j \in 1..n :
             i < j => conversations[s[i]].updated_at >= conversations[s[j]].updated_at}

\* list_conversations(limit), with the rows in the order given: LIMIT ?
list_conversations(order, limit) ==
  LET n == IF limit < Len(order) THEN limit ELSE Len(order)
  IN [i \in 1..n |->
        [id |-> order[i],
         status |-> conversations[order[i]].status,
         updated_at |-> conversations[order[i]].updated_at,
         message_count |-> CountIds(JoinedIds(order[i]))]]

\* The greatest limit list_conversations is called with.
MaxLimit == 2

ListConversations(limit) ==
  /\ work < MaxWork
  /\ work' = work + 1
  /\ \E order \in ListOrders :
       listed' = [limit |-> limit, rows |-> list_conversations(order, limit)]
  /\ UNCHANGED <<conversations, messages, now, current_conversation_id, running, handlers,
                 message_callbacks, queue, channelOpen, pc, pendingExc, hpc, hcb, events,
                 notified, played, drained, session, got, txn>>
  /\ UNCHANGED peer

StoreNext ==
  \/ \E dt \in 0..1 : CreateConversation(dt)
  \/ \E c \in 1..(Len(conversations) + 1), st \in Statuses, dt \in 0..1 :
       UpdateConversationStatus(c, st, dt)
  \/ \E c \in 0..(Len(conversations) + 1), r \in Roles, dt \in 0..1 :
       AddMessageInsert(c, r, "hello", dt)
  \/ \E ok \in BOOLEAN, dt \in 0..1 : AddMessageUpdate(ok, dt)
  \/ Crash
  \/ \E c \in DOMAIN conversations : GetMessages(c)
  \/ \E limit \in 0..MaxLimit : ListConversations(limit)

StoreSpec == Init /\ [][StoreNext]_vars

----------------------------------------------------------------------------
\* Two processes on one Store: the session of this model and the session of
\* a ConversationManager that another command of cli.py runs on the same
\* database file.  Of the other session the model keeps the Store calls:
\* lines 71-81 of start_conversation, the add_message of the callback and the
\* status write of _cleanup.  Calls of the other process that fail are left
\* out: they take Store writes away and add none.

\* The other process starts (conversation_id = None) or resumes a
\* conversation the Store holds.
PeerStart(conversation_id, dt) ==
  /\ peer.pc = "idle"
  /\ conversation_id # None => get_conversation(conversation_id) # <<>>
  /\ work + 1 + dt <= MaxWork
  /\ work' = work + 1 + dt
  /\ now' = now + dt
  /\ IF conversation_id # None
     THEN /\ conversations' = update_conversation_status(conversations, conversation_id,
                                                         "active", now')
          /\ peer' = [pc |-> "active", conversation_id |-> conversation_id]
     ELSE /\ conversations' = create_conversation(conversations, now')
          /\ peer' = [pc |-> "active", conversation_id |-> Len(conversations) + 1]
  /\ UNCHANGED <<messages, current_conversation_id, running, handlers, message_callbacks,
                 queue, channelOpen, pc, pendingExc, hpc, hcb, events, notified, played,
                 drained, session, got, txn, listed>>

\* The callback of the other session saves a message of its channel (the
\* role is user or assistant, its current_conversation_id is set).
PeerSave(role, content, dt) ==
  /\ peer.pc = "active"
  /\ work + 1 + dt <= MaxWork
  /\ work' = work + 1 + dt
  /\ now' = now + dt
  /\ messages' = InsertMessage(messages, peer.conversation_id, role, content, now', 0)
  /\ conversations' = TouchConversation(conversations, peer.conversation_id, now')
  /\ UNCHANGED <<current_conversation_id, running, handlers, message_callbacks, queue,
                 channelOpen, pc, pendingExc, hpc, hcb, events, notified, played, drained,
                 session, got, txn, listed, peer>>

\* The other session ends: its _cleanup writes the status.
PeerCleanup(dt) ==
  /\ peer.pc = "active"
  /\ work + 1 + dt <= MaxWork
  /\ work' = work + 1 + dt
  /\ now' = now + dt
  /\ conversations' = update_conversation_status(conversations, peer.conversation_id,
                                                 CleanupStatus, now')
  /\ peer' = NoPeer
  /\ UNCHANGED <<messages, current_conversation_id, running, handlers, message_callbacks,
                 queue, channelOpen, pc, pendingExc, hpc, hcb, events, notified, played,
                 drained, session, got, txn, listed>>

SharedNext ==
  \/ Next
  \/ \E c \in 0..Len(conversations), dt \in 0..1 : PeerStart(c, dt)
  \/ \E r \in Roles, dt \in 0..1 : PeerSave(r, "hello", dt)
  \/ \E dt \in 0..1 : PeerCleanup(dt)

SharedSpec == Init /\ [][SharedNext]_vars

----------------------------------------------------------------------------
\* Properties.

IsPrefix(s, t) == Len(s) <= Len(t) /\ \A i \in DOMAIN s : s[i] = t[i]

\* The steps of the teardown so far, a step that failed counted as the step.
Steps == [i \in DOMAIN session.log |->
            CASE session.log[i] = "close failed" -> "close"
              [] session.log[i] = "status failed" -> "status"
              [] session.log[i] = "stop failed" -> "stop"
              [] OTHER -> session.log[i]]

RowsOfEvent(id) == {m \in DOMAIN messages : messages[m].ev = id}

Returned == pc = "idle" /\ session # NoSession

\* C1: once start_conversation has returned from a session that obtained a
\* conversation id, and the status write has not failed, the status of that
\* conversation in the Store is paused.
C1_PausedAfterReturn ==
  (/\ Returned
   /\ session.obtained # None
   /\ ~Contains(session.log, "status failed"))
    => conversations[session.obtained].status = "paused"

\* C2: the teardown of a session that was Active stops the Audio Bridge,
\* then closes the Channel, then writes the status paused; no step occurs
\* before its predecessor.
C2_StopThenCloseThenPaused ==
  session.active => IsPrefix(Steps, <<"stop", "close", "status">>)

\* C3: a user_message or assistant_message event of the session has at most
\* one row, and exactly one when its handling came to the Store write and the
\* write succeeded; the row has the role of the event, its text and the
\* conversation of the session; the rows of earlier sessions are as they were
\* and every row added since belongs to an event of this session.
C3_ExactlyOneRow ==
  /\ \A i \in DOMAIN events :
       LET e == events[i]
           rows == RowsOfEvent(e.id)
       IN /\ Cardinality(rows) <= 1
          /\ (e.kind \in MessageKinds /\ e.st \in {"done", "raised"} /\ e.fails = 0)
               => Cardinality(rows) = 1
          /\ \A m \in rows :
               /\ e.kind = "user_message" => messages[m].role = "user"
               /\ e.kind = "assistant_message" => messages[m].role = "assistant"
               /\ messages[m].content = e.text
               /\ messages[m].conversation_id = session.obtained
  /\ IsPrefix(session.msgs, messages)
  /\ \A m \in DOMAIN messages :
       m > Len(session.msgs) => \E i \in DOMAIN events : events[i].id = messages[m].ev

C3_Witness ==
  /\ ~session.fresh
  /\ \E i \in DOMAIN events :
       /\ events[i].kind = "user_message"
       /\ events[i].st = "done"
       /\ Cardinality(RowsOfEvent(events[i].id)) = 1

\* C4: every row of the Message table has role user or assistant.
C4_NoSystemRow ==
  \A m \in DOMAIN messages : messages[m].role \in {"user", "assistant"}

C4_Witness ==
  /\ \E i \in DOMAIN notified :
       notified[i].role = "system" /\ notified[i].content = "[Interrupted]"
  /\ \E i \in DOMAIN notified : notified[i].content = "[chat_metadata]"
  /\ messages # <<>>

C6_ResumeNotFound ==
  (session.arg # None /\ session.arg \notin DOMAIN session.convs) =>
    /\ session.report = "notfound"
    /\ session.obtained = None
    /\ conversations = session.convs
    /\ messages = session.msgs

\* C7 as stated: a failure is reported as the remote timeout exactly when it
\* is a closure without a close handshake frame, and as an error otherwise.
C7_TimeoutIffNoHandshake ==
  (session.exc # NoExc /\ session.exc # KeyboardInterrupt) =>
    /\ NoHandshake(session.exc) => session.report = "timeout"
    /\ ~NoHandshake(session.exc) => session.report = "error"

\* C7 as amended: a failure is reported as the remote timeout exactly when
\* its class is ConnectionClosedError or its message holds "no close frame",
\* so for every closure without a handshake frame and also for a
\* ConnectionClosedError that carries a close frame; every other failure is
\* reported as an error with its message.
C7_TimeoutByClassOrMessage ==
  (session.exc # NoExc /\ session.exc # KeyboardInterrupt) =>
    LET closed == \E i \in DOMAIN session.exc.type :
                    session.exc.type[i] = "ConnectionClosedError"
        noframe == \E i \in DOMAIN session.exc.msg : session.exc.msg[i] = "no close frame"
    IN /\ (closed \/ noframe) => session.report = "timeout"
       /\ ~(closed \/ noframe) =>
            session.report = "error" /\ session.shown = session.exc.msg

C7_Witness ==
  /\ Returned
  /\ session.active
  /\ session.exc = ConnectionClosedNoFrame
  /\ session.report = "timeout"

\* C8: once the cancellation signal has been taken, every event the handler
\* had begun has been handled to its end, and none is in hand.
C8_CooperativeCancellation ==
  session.cancelled =>
    /\ hpc = "idle"
    /\ \A i \in DOMAIN events : events[i].st \in {"done", "raised"}

\* C9: a frame that a user_interruption removed from the queue is not played
\* and not queued again; the queue is empty while the handler of the
\* user_interruption runs on and when it has finished with no later event;
\* the frames played and those queued are in the order they were queued.
C9_DrainAndFifo ==
  /\ drained \cap (Range(played) \cup Range(queue)) = {}
  /\ (events # <<>> /\ Cur.kind = "user_interruption") => queue = <<>>
  /\ LET all == played \o queue
     IN \A i, j \in DOMAIN all : i < j => all[i] < all[j]

C9_Witness ==
  /\ drained # {}
  /\ \E i \in DOMAIN played : \A f \in drained : played[i] > f

\* C10: an exception in the handling of one event leaves the session where
\* it was, in Active, and no exception of the handler reaches
\* start_conversation; an event handled after it has its row as any other.
C10_HandlerErrorIsolated ==
  /\ [][\A i \in DOMAIN events' :
          (events'[i].st = "raised" /\ (i \notin DOMAIN events \/ events[i].st # "raised"))
            => /\ pc = "active" /\ pc' = "active"
               /\ pendingExc' = pendingExc
               /\ channelOpen' = channelOpen
               /\ running' = running]_vars
  /\ [](/\ pendingExc # HandlerException
        /\ session.exc # HandlerException
        /\ \A i, j \in DOMAIN events :
             (/\ i < j
              /\ events[i].st = "raised"
              /\ events[j].kind \in MessageKinds
              /\ events[j].st = "done"
              /\ events[j].fails = 0)
               => Cardinality(RowsOfEvent(events[j].id)) = 1)

C10_Witness ==
  /\ pc = "active"
  /\ \E i, j \in DOMAIN events :
       /\ i < j
       /\ events[i].st = "raised"
       /\ events[j].kind \in MessageKinds
       /\ events[j].st = "done"
       /\ Cardinality(RowsOfEvent(events[j].id)) = 1

\* C11: a step in which add_message fails for the event in hand leaves the
\* session Active with the channel open and the Store as it was, and the
\* notification of the event is printed in that step (unless the print
\* itself raises); a message event handled after it, with no failure of its
\* own, has its row.
C11_StoreFailureAbsorbed ==
  /\ [][(/\ events # <<>>
         /\ Len(events') = Len(events)
         /\ events'[Len(events)].fails > Cur.fails)
          => /\ pc = "active" /\ pc' = "active"
             /\ channelOpen'
             /\ pendingExc' = pendingExc
             /\ messages' = messages
             /\ conversations' = conversations
             /\ \/ notified' = Append(notified, [ev |-> Cur.id, role |-> RoleOf(Cur),
                                                 content |-> ContentOf(Cur)])
                \/ /\ events'[Len(events)].st = "raised"
                   /\ work' = work + 2]_vars
  /\ [](\A i, j \in DOMAIN events :
          (/\ i < j
           /\ events[i].fails > 0
           /\ events[j].kind \in MessageKinds
           /\ events[j].st = "done"
           /\ events[j].fails = 0)
            => Cardinality(RowsOfEvent(events[j].id)) = 1)

C11_Witness ==
  /\ pc = "active"
  /\ \E i, j \in DOMAIN events :
       /\ i < j
       /\ events[i].fails = 1
       /\ events[i].st = "done"
       /\ RowsOfEvent(events[i].id) = {}
       /\ \E n \in DOMAIN notified : notified[n].ev = events[i].id
       /\ events[j].st = "done"
       /\ Cardinality(RowsOfEvent(events[j].id)) = 1

\* C12: in every committed state of the Store, also after an error or the
\* end of the process between the two statements of add_message, each
\* Conversation has had its updated_at bumped by add_message once for each of
\* its Message rows: no row without the bump, no bump without the row.
C12_AddMessageAtomic ==
  \A c \in DOMAIN conversations : conversations[c].bumps = Cardinality(RowsOf(c))

C12_Witness ==
  /\ txn.st \in {"failed", "crashed"}
  /\ txn.err # "IntegrityError"
  /\ RowsOf(txn.conversation_id) # {}

\* C13: in every state of the Store, the updated_at of a Conversation is not
\* before the timestamp of any of its Messages.
C13_UpdatedAtCoversMessages ==
  \A m \in DOMAIN messages :
    messages[m].conversation_id \in DOMAIN conversations =>
      conversations[messages[m].conversation_id].updated_at >= messages[m].timestamp

C13_Witness ==
  \E m \in DOMAIN messages :
    LET c == conversations[messages[m].conversation_id]
    IN /\ messages[m].timestamp > c.created_at
       /\ c.updated_at > messages[m].timestamp

\* C14: every Message row names a Conversation of the Store; an add_message
\* for an id that names none ends with the IntegrityError of the Store, and the
\* step that raises it changes no table.
C14_ForeignKeyEnforced ==
  /\ [](\A m \in DOMAIN messages : messages[m].conversation_id \in DOMAIN conversations)
  /\ []((txn.st # "none" /\ txn.conversation_id \notin DOMAIN conversations)
          => (txn.st = "failed" /\ txn.err = "IntegrityError"))
  /\ [][(txn' # txn /\ txn'.err = "IntegrityError")
          => (messages' = messages /\ conversations' = conversations)]_vars

C14_Witness ==
  /\ txn.st = "failed"
  /\ txn.err = "IntegrityError"
  /\ txn.conversation_id = Len(conversations) + 1
  /\ messages # <<>>

\* C15: a session whose channel did not open has created no Conversation and
\* has set no status to active.
C15_StoreEffectsOnOpen ==
  (session.exc \in Failures /\ ~session.active) =>
    /\ Len(conversations) = Len(session.convs)
    /\ \A c \in DOMAIN session.convs :
         (conversations[c].status = "active") => (session.convs[c].status = "active")

\* C16: the resume command without an id resumes a Conversation that is
\* active and has the greatest updated_at among the active ones, and creates
\* none, when one is active; it starts a new Conversation only when none is
\* active; with an id it resumes that Conversation.
C16_ResumeSelection ==
  session.cmd = "resume" =>
    LET before == session.convs
        act == {c \in DOMAIN before : before[c].status = "active"}
        created == Len(conversations) > Len(before)
    IN /\ (session.cmdarg = None /\ act # {}) =>
            /\ session.arg \in act
            /\ \A d \in act : before[d].updated_at <= before[session.arg].updated_at
            /\ session.obtained = session.arg
       /\ (session.cmdarg = None /\ act = {}) =>
            /\ session.arg = None
            /\ session.obtained # None => (created /\ session.obtained = Len(before) + 1)
       /\ session.cmdarg # None =>
            /\ session.arg = session.cmdarg
            /\ session.cmdarg \in DOMAIN before => session.obtained = session.cmdarg
       /\ created => (session.cmdarg = None /\ act = {})

C16_Witness ==
  /\ session.cmd = "resume"
  /\ session.cmdarg = None
  /\ session.active
  /\ session.obtained = 1
  /\ Len(session.convs) = 2
  /\ session.convs[1].status = "active"
  /\ session.convs[2].status = "active"
  /\ session.convs[1].updated_at > session.convs[2].updated_at

\* C17: the resume command without an id, given after a session that was
\* Active, ended with the remote timeout report and was torn down in full,
\* continues the conversation of that session and creates no Conversation.
C17_ResumeAfterTimeout ==
  [][(/\ pc = "idle"
      /\ session.active
      /\ session.report = "timeout"
      /\ session.obtained # None
      /\ Steps = <<"close", "status", "stop">>
      /\ pc' = "connecting"
      /\ session'.cmd = "resume"
      /\ session'.cmdarg = None)
       => /\ session'.arg = session.obtained
          /\ Len(conversations') = Len(conversations)]_vars

\* C18: list_conversations(limit) returns at most limit conversations (all
\* of them when there are no more than limit), each once, in descending order
\* of updated_at and none before one it leaves out; the message_count of an
\* entry is the number of Message rows of its conversation.
C18_ListConversations ==
  [][listed' # listed =>
       LET rows == listed'.rows
           n == Len(conversations)
       IN /\ Len(rows) <= listed'.limit
          /\ Len(rows) = (IF listed'.limit < n THEN listed'.limit ELSE n)
          /\ \A i, j \in DOMAIN rows : i < j =>
               /\ rows[i].id # rows[j].id
               /\ rows[i].updated_at >= rows[j].updated_at
          /\ \A i \in DOMAIN rows :
               /\ rows[i].id \in DOMAIN conversations
               /\ rows[i].updated_at = conversations[rows[i].id].updated_at
               /\ rows[i].message_count =
                    Cardinality({m \in DOMAIN messages :
                                   messages[m].conversation_id = rows[i].id})
               /\ \A c \in DOMAIN conversations :
                    (\A k \in DOMAIN rows : rows[k].id # c) =>
                      conversations[c].updated_at <= rows[i].updated_at]_vars

C18_Witness ==
  /\ listed.limit = 1
  /\ Len(listed.rows) = 1
  /\ Len(conversations) = 2
  /\ listed.rows[1].message_count = 1
  /\ \E c \in DOMAIN conversations : RowsOf(c) = {}

Attempted(step) == \E i \in DOMAIN Steps : Steps[i] = step

\* C19: a teardown step that fails does not keep the steps after it from
\* being attempted: a close of the channel that raises goes on to the except
\* clauses and from there to _cleanup, a status write that raises goes on to
\* the stop of the Audio Bridge; when the stop is due the status write has
\* been attempted, and a teardown that no signal cut short has attempted both.
C19_BestEffortTeardown ==
  /\ [][session'.log = Append(session.log, "close failed")
          => (pc' = "except" /\ pendingExc' \in Failures)]_vars
  /\ [][(pc = "except" /\ pc' # pc) => pc' = "cleanup1"]_vars
  /\ [][session'.log = Append(session.log, "status failed") => pc' = "cleanup2"]_vars
  /\ []((pc = "cleanup2" /\ session.obtained # None) => Attempted("status"))
  /\ []((Returned /\ ~session.preempted) =>
          /\ Attempted("stop")
          /\ session.obtained # None => Attempted("status"))

C19_Witness ==
  /\ Returned
  /\ session.active
  /\ session.log = <<"close failed", "status failed", "stop">>

\* C20: the status of every Conversation is active or paused; the
\* Conversation of a session is active from the write that created or resumed
\* it until teardown, and paused once the status write of teardown is done.
C20_ActiveOrPaused ==
  /\ \A c \in DOMAIN conversations : conversations[c].status \in {"active", "paused"}
  /\ (pc \in {"connecting", "active", "exit"} /\ session.obtained # None) =>
       conversations[session.obtained].status = "active"
  /\ (pc \in {"cleanup2", "idle"} /\ session.obtained # None
        /\ Contains(session.log, "status")) =>
       conversations[session.obtained].status = "paused"

C20_Witness ==
  /\ Returned
  /\ session.active
  /\ session.arg # None
  /\ session.obtained = session.arg
  /\ session.convs[session.arg].status = "paused"
  /\ Contains(session.log, "status")
  /\ conversations[session.obtained].status = "paused"

\* C21: every event is handled as the table of its kind says.  The step that
\* takes an event in writes nothing to the Store; for an audio_output whose
\* data decodes it appends that one frame to the playback queue, notifies
\* nothing and is the whole handling; for any other kind it appends no frame.
\* An audio_output has no notification and no row; a user_interruption and
\* an event of another kind have no row and no frame, and one notification
\* when handled to the end (none twice): of role system, with the text
\* [Interrupted] for the one and the kind of the event in brackets for the other.
C21_EventClassification ==
  /\ [][Len(events') = Len(events) + 1 =>
          LET e == events'[Len(events')]
          IN /\ messages' = messages
             /\ conversations' = conversations
             /\ notified' = notified
             /\ (e.kind = "audio_output" /\ e.st = "done") =>
                  (queue' = Append(queue, e.id) /\ hpc' = "idle")
             /\ (e.kind = "audio_output" /\ e.st # "done") => queue' = queue
             /\ e.kind # "audio_output" =>
                  \A i \in DOMAIN queue' : \E j \in DOMAIN queue : queue[j] = queue'[i]]_vars
  /\ [](\A i \in DOMAIN events :
          LET e == events[i]
              notes == {n \in DOMAIN notified : notified[n].ev = e.id}
              rows == {m \in DOMAIN messages : messages[m].ev = e.id}
              frames == {f \in DOMAIN queue : queue[f] = e.id}
                          \cup {f \in DOMAIN played : played[f] = e.id}
          IN /\ e.kind = "audio_output" => (notes = {} /\ rows = {})
             /\ e.kind \notin {"audio_output", "user_message", "assistant_message"} =>
                  /\ rows = {}
                  /\ frames = {}
                  /\ e.id \notin drained
                  /\ Cardinality(notes) <= 1
                  /\ e.st = "done" => Cardinality(notes) = 1
                  /\ \A n \in notes :
                       /\ notified[n].role = "system"
                       /\ e.kind = "user_interruption" =>
                            notified[n].content = "[Interrupted]"
                       /\ e.kind = "chat_metadata" =>
                            notified[n].content = "[chat_metadata]")

C21_Witness ==
  /\ pc = "active"
  /\ \E i, j, k \in DOMAIN events :
       /\ events[i].kind = "audio_output" /\ events[i].st = "done"
       /\ \E f \in DOMAIN queue : queue[f] = events[i].id
       /\ events[j].kind = "chat_metadata" /\ events[j].st = "done"
       /\ \E n \in DOMAIN notified :
            notified[n].ev = events[j].id /\ notified[n].content = "[chat_metadata]"
       /\ events[k].kind = "user_interruption" /\ events[k].st = "done"
       /\ \E n \in DOMAIN notified :
            notified[n].ev = events[k].id /\ notified[n].content = "[Interrupted]"

\* C23: once a terminal condition has occurred (the audio loop has ended, by
\* its return, an exception or the signal, or the connection has failed),
\* start_conversation returns; and when it has returned, the teardown has
\* been executed, once: the stop of the Audio Bridge was attempted once, and
\* so was the status write when the session had obtained a conversation.
C23_TeardownAlwaysRuns ==
  /\ (pc \in {"exit", "except", "cleanup1", "cleanup2"}) ~> (pc = "idle")
  /\ [](Returned =>
          /\ Cardinality({i \in DOMAIN Steps : Steps[i] = "stop"}) = 1
          /\ session.obtained # None =>
               Cardinality({i \in DOMAIN Steps : Steps[i] = "status"}) = 1)

\* C24: a start_conversation that reports not found opens no channel and
\* leaves the status and the updated_at of every Conversation as they were
\* before the call, whatever the coordinator did before.
C24_NotFoundNoSideEffects ==
  session.report = "notfound" =>
    /\ ~channelOpen
    /\ ~session.active
    /\ DOMAIN conversations = DOMAIN session.convs
    /\ \A c \in DOMAIN session.convs :
         /\ conversations[c].status = session.convs[c].status
         /\ conversations[c].updated_at = session.convs[c].updated_at

\* C25: when start_conversation has returned from a teardown during which
\* a signal arrived, the stop of the Audio Bridge has been attempted and the
\* conversation of the session, unless its status write failed, is paused.
C25_SignalDuringTeardown ==
  (Returned /\ session.preempted) =>
    /\ \E i \in DOMAIN session.log : session.log[i] \in {"stop", "stop failed"}
    /\ (session.obtained # None /\ ~Contains(session.log, "status failed")) =>
         conversations[session.obtained].status = "paused"

\* C26: every step that appends a Message appends it to a Conversation whose
\* status is active, whichever of the sessions on the Store makes the step.
C26_AppendOnlyWhileActive ==
  [][\A m \in DOMAIN messages' :
       m \notin DOMAIN messages =>
         /\ messages'[m].conversation_id \in DOMAIN conversations
         /\ conversations[messages'[m].conversation_id].status = "active"]_vars

\* C27: no step of the Store deletes a Conversation or a Message or changes
\* a Message there is; a step changes at most one Conversation there is, and
\* never its created_at.  A step that adds a Message adds one, adds no
\* Conversation and changes of its parent the updated_at only; a step that
\* adds none changes of a Conversation the status and the updated_at only.
C27_AppendOnly ==
  [][/\ Len(messages') >= Len(messages)
     /\ Len(messages') <= Len(messages) + 1
     /\ \A m \in DOMAIN messages : messages'[m] = messages[m]
     /\ Len(conversations') >= Len(conversations)
     /\ \A c, d \in DOMAIN conversations :
          (conversations'[c] # conversations[c] /\ conversations'[d] # conversations[d])
            => c = d
     /\ \A c \in DOMAIN conversations :
          /\ conversations'[c].created_at = conversations[c].created_at
          /\ conversations'[c].updated_at >= conversations[c].updated_at
     /\ Len(messages') > Len(messages) =>
          /\ Len(conversations') = Len(conversations)
          /\ \A c \in DOMAIN conversations :
               /\ conversations'[c].status = conversations[c].status
               /\ conversations'[c] # conversations[c] =>
                    messages'[Len(messages')].conversation_id = c
     /\ Len(messages') = Len(messages) =>
          \A c \in DOMAIN conversations :
            conversations'[c].bumps = conversations[c].bumps]_vars

C27_Witness ==
  /\ Len(conversations) = 2
  /\ conversations[1].status = "active"
  /\ conversations[2].status = "paused"
  /\ conversations[1].bumps = 1
  /\ \E m \in DOMAIN messages : messages[m].conversation_id = 1

====
